---- MODULE Spec2Model ----
(***************************************************************************)
(* hoard: a content-addressed object store with hardlinks (src/hoard.rs)  *)
(* and the state reconciler (src/state.rs).                               *)
(*                                                                         *)
(* A path is a sequence of components, a component is a sequence of       *)
(* character codes (ASCII), so that paths compare as Rust's PathBuf does  *)
(* and a hash can be split into and rebuilt from path components.         *)
(***************************************************************************)
EXTENDS Integers, Sequences, FiniteSets, TLC

VARIABLES fs,        \* the filesystem: existing path -> entry
          objects,   \* ObjectStore.objects, a two-key map (inode, hash) -> FileObject
          last,      \* the most recent call of link / put: its arguments and result
          puts,      \* what every successful put so far was given and returned
          index,     \* Index.objects, the Name Index
          built,     \* the Result of the most recent Index::from
          manifest,  \* the manifest handed to State::from_file
          desire,    \* the State built from the manifest
          scanned,   \* the path handed to State::from_path
          actual,    \* the State built from the filesystem
          plan,      \* the Changes resolve returned
          todo,      \* the Changes still to execute
          pc         \* where the reconciliation stands

svars == <<index, built, manifest, desire, scanned, actual, plan, todo, pc>>
vars == <<fs, objects, last, puts, svars>>

----------------------------------------------------------------------------
(* Bounds of the model *)

\* number of working-tree files, and of inodes they may have, of the store machine
NumFiles == 3
\* number of working-tree files, and of inodes they may have, of the link machine
NumLinkFiles == 2
\* number of paths of the working tree the reconciler is given
NumPaths == 2

(* Program constants *)

\* "^[a-f0-9]{64}$"
HashLen == 64
\* &self.0[0..2]
PrefixLen == 2

----------------------------------------------------------------------------
(* Characters and strings *)

HexChars == (48 .. 57) \cup (97 .. 102)

HexChar(n) == IF n < 10 THEN 48 + n ELSE 87 + n

\* ".hoard", "objects", "by-hash", "by-name"
HoardName == <<46, 104, 111, 97, 114, 100>>
ObjectsName == <<111, 98, 106, 101, 99, 116, 115>>
ByHashName == <<98, 121, 45, 104, 97, 115, 104>>
ByNameName == <<98, 121, 45, 110, 97, 109, 101>>

Root == <<>>
ObjectsRoot == <<HoardName, ObjectsName>>

\* a path that names nothing (a component holding NUL cannot exist)
NoPath == << <<0>> >>

Parent(p) == SubSeq(p, 1, Len(p) - 1)

IsPrefix(p, q) == Len(p) <= Len(q) /\ SubSeq(q, 1, Len(p)) = p

----------------------------------------------------------------------------
(* The filesystem *)

File(i) == [kind |-> "file", ino |-> i, target |-> Root]
Dir == [kind |-> "dir", ino |-> 0, target |-> Root]
Symlink(t) == [kind |-> "symlink", ino |-> 0, target |-> t]

\* the content of the file with inode i: inodes 2k and 2k + 1 hold the same
\* bytes, other pairs of inodes hold different bytes
ContentOf(i) == i \div 2

\* the prefixes of p at which a resolution that follows no symlink stops: one
\* that is not there, a symlink, or one that is no directory though components
\* follow it
Stops(f, p) ==
    {k \in 1 .. Len(p) :
        LET q == SubSeq(p, 1, k)
        IN  \/ q \notin DOMAIN f
            \/ f[q].kind = "symlink"
            \/ k < Len(p) /\ f[q].kind # "dir"}

RECURSIVE Canon(_, _, _, _)
\* the resolution of the path p, component by component from the root: a
\* symlink met on the way is replaced by its target and the resolution goes on
\* from there with the components that follow (NoPath when a component is not
\* there, when one that is not the last is no directory, or after fuel
\* symlinks); with missing, the resolution ends at the first component that
\* is not there and keeps it and what follows it as they are named
Canon(f, p, fuel, missing) ==
    IF Root \notin DOMAIN f THEN NoPath
    ELSE IF Stops(f, p) = {} THEN p
    ELSE LET k == CHOOSE i \in Stops(f, p) : \A j \in Stops(f, p) : i <= j
             q == SubSeq(p, 1, k)
         IN  IF q \notin DOMAIN f THEN (IF missing THEN p ELSE NoPath)
             ELSE IF f[q].kind # "symlink" THEN NoPath
             ELSE IF fuel = 0 THEN NoPath
             ELSE Canon(f, f[q].target \o SubSeq(p, k + 1, Len(p)), fuel - 1, missing)

\* Path::canonicalize: the real path p names, every symlink on the way
\* followed; the kernel gives up (ELOOP) after 40 symlinks
Canonicalize(f, p) == Canon(f, p, 40, FALSE)

\* where the directory entry that p names is: the real path of p's directory
\* and p's last component, a symlink there not followed (NoPath when the
\* directory does not resolve to one)
Real(f, p) ==
    IF p = Root THEN p
    ELSE LET d == Canonicalize(f, Parent(p))
         IN  IF d = NoPath THEN NoPath
             ELSE IF f[d].kind # "dir" THEN NoPath
             ELSE Append(d, p[Len(p)])

\* Path::exists, Path::is_file, Path::is_dir follow symlinks
Exists(f, p) == Canonicalize(f, p) # NoPath
IsFile(f, p) == Exists(f, p) /\ f[Canonicalize(f, p)].kind = "file"
IsDir(f, p) == Exists(f, p) /\ f[Canonicalize(f, p)].kind = "dir"

\* Path::metadata()?.ino() of an existing file
InoOf(f, p) == f[Canonicalize(f, p)].ino

\* src.metadata().ino() == dst.metadata().ino(), both existing
SameInode(f, p, q) ==
    LET cp == Canonicalize(f, p)
        cq == Canonicalize(f, q)
    IN  IF f[cp].kind = "file" /\ f[cq].kind = "file" THEN f[cp].ino = f[cq].ino
        ELSE cp = cq

\* the length of the longest prefix of p that exists
Deepest(f, p) ==
    CHOOSE k \in 0 .. Len(p) :
        /\ Exists(f, SubSeq(p, 1, k))
        /\ \A j \in (k + 1) .. Len(p) : ~Exists(f, SubSeq(p, 1, j))

\* fs::create_dir_all: fails, creating nothing, when the longest prefix that
\* exists is no directory, or when a dangling symlink is in the place of the
\* first directory to make
CreateDirAllOk(f, p) ==
    LET k == Deepest(f, p)
    IN  /\ IsDir(f, SubSeq(p, 1, k))
        /\ k < Len(p) => Append(Canonicalize(f, SubSeq(p, 1, k)), p[k + 1]) \notin DOMAIN f

\* the directories that are missing are made, below the real path of the
\* longest prefix that exists
CreateDirAll(f, p) ==
    LET made == UNION {{SubSeq(r, 1, j) : j \in 0 .. Len(r)} :
                           r \in {Canon(f, p, 40, TRUE)} \ {NoPath}}
    IN  [q \in DOMAIN f \cup made |-> IF q \in DOMAIN f THEN f[q] ELSE Dir]

\* the filesystem f with entry e at path p, the directories above it made:
\* the entry is where p leads in the filesystem create_dir_all leaves
WithEntry(f, p, e) ==
    CHOOSE h \in {[q \in DOMAIN g \cup {Real(g, p)} |-> IF q = Real(g, p) THEN e ELSE g[q]] :
                     g \in {CreateDirAll(f, Parent(p))}} : TRUE

\* fs::hard_link(src, dst): the entry src names must be there and no directory,
\* the entry dst names must not be there, its parent must be a directory (a
\* symlink in the last component of either is not followed); fault is a
\* failure of the system call itself (EXDEV, EMLINK, EPERM)
HardLinkOk(f, src, dst, fault) ==
    /\ ~fault
    /\ Real(f, src) \in DOMAIN f
    /\ f[Real(f, src)].kind # "dir"
    /\ Len(dst) > 0
    /\ Real(f, dst) # NoPath
    /\ Real(f, dst) \notin DOMAIN f

HardLink(f, src, dst) ==
    [q \in DOMAIN f \cup {Real(f, dst)} |-> IF q = Real(f, dst) THEN f[Real(f, src)] ELSE f[q]]

\* fs::remove_file(p): the entry p names must be there and no directory
RemoveFileOk(f, p) == Real(f, p) \in DOMAIN f /\ f[Real(f, p)].kind # "dir"

RemoveFile(f, p) == [q \in DOMAIN f \ {Real(f, p)} |-> f[q]]

----------------------------------------------------------------------------
(* hoard::link *)

\* the Result<bool> of link, with the filesystem it leaves
LinkRet(ok, created, f) == [ok |-> ok, created |-> created, fs |-> f]

\* _link reporting a replacement as a creation
_link_created(f, src, dst, fault) ==
    IF Len(dst) > 0 /\ ~CreateDirAllOk(f, Parent(dst)) THEN LinkRet(FALSE, FALSE, f)
    ELSE
    LET f1 == IF Len(dst) > 0 THEN CreateDirAll(f, Parent(dst)) ELSE f
    IN  IF ~Exists(f1, dst)
        THEN IF HardLinkOk(f1, src, dst, fault)
             THEN LinkRet(TRUE, TRUE, HardLink(f1, src, dst))
             ELSE LinkRet(FALSE, FALSE, f1)
        ELSE IF ~Exists(f1, src) THEN LinkRet(FALSE, FALSE, f1)
        ELSE IF SameInode(f1, src, dst) THEN LinkRet(TRUE, FALSE, f1)
        ELSE IF ~RemoveFileOk(f1, dst) THEN LinkRet(FALSE, FALSE, f1)
        ELSE LET f2 == RemoveFile(f1, dst)
             IN  IF HardLinkOk(f2, src, dst, fault)
                 THEN LinkRet(TRUE, TRUE, HardLink(f2, src, dst))
                 ELSE LinkRet(FALSE, FALSE, f2)

_link(f, src, dst, fault) ==
    IF Len(dst) > 0 /\ ~CreateDirAllOk(f, Parent(dst)) THEN LinkRet(FALSE, FALSE, f)
    ELSE
    LET f1 == IF Len(dst) > 0 THEN CreateDirAll(f, Parent(dst)) ELSE f
    IN  IF ~Exists(f1, dst)
        THEN IF HardLinkOk(f1, src, dst, fault)
             THEN LinkRet(TRUE, TRUE, HardLink(f1, src, dst))
             ELSE LinkRet(FALSE, FALSE, f1)
        ELSE IF ~Exists(f1, src) THEN LinkRet(FALSE, FALSE, f1)
        ELSE IF SameInode(f1, src, dst) THEN LinkRet(TRUE, FALSE, f1)
        ELSE IF ~RemoveFileOk(f1, dst) THEN LinkRet(FALSE, FALSE, f1)
        ELSE LET f2 == RemoveFile(f1, dst)
             IN  IF HardLinkOk(f2, src, dst, fault)
                 THEN LinkRet(TRUE, FALSE, HardLink(f2, src, dst))
                 ELSE LinkRet(FALSE, FALSE, f2)

link(f, src, dst, fault) == _link(f, src, dst, fault)

----------------------------------------------------------------------------
(* FileHash *)

\* FileHash::of: the SHA-256 of the file's bytes as 64 hex characters; modelled
\* as an injective map from contents (collisions are out of scope).  Contents
\* 2k and 2k + 1 share their first two characters, hence their directory.
Sha256(c) ==
    [i \in 1 .. HashLen |->
        HexChar(IF i <= PrefixLen THEN (c \div 2) % 16 ELSE (c + i) % 16)]

NoHash == <<>>

\* FileHash::of(path): fails unless path can be opened and read as a file
FileHashOfOk(f, p) == IsFile(f, p)

FileHashOf(f, p) == Sha256(ContentOf(InoOf(f, p)))

\* FileHash::from_str: Ok exactly for 64 characters of [a-f0-9]
FromStrOk(s) == Len(s) = HashLen /\ \A i \in 1 .. Len(s) : s[i] \in HexChars

\* as_path with the two components in the wrong order
as_path_swapped(h) == <<SubSeq(h, PrefixLen + 1, Len(h)), SubSeq(h, 1, PrefixLen)>>

\* FileHash::as_path: "{}/{}" of the first two characters and the rest, as the
\* two components Path::join appends
as_path(h) == <<SubSeq(h, 1, PrefixLen), SubSeq(h, PrefixLen + 1, Len(h))>>

----------------------------------------------------------------------------
(* FileObject *)

\* the string FileObject::new hands to from_str: the last two components
HashStr(path) == path[Len(path) - 1] \o path[Len(path)]

\* FileObject::new(path) is Ok (a path of fewer than two components panics)
FileObjectNewOk(path) == Len(path) >= 2 /\ FromStrOk(HashStr(path))

FileObjectNew(path) == [path |-> path, hash |-> HashStr(path)]

----------------------------------------------------------------------------
(* ObjectStore: objects is multi_map::MultiMap<u64, FileHash, FileObject>,   *)
(* value_map: inode -> (hash, object) and key_map: hash -> inode             *)

EmptyMap == [value_map |-> <<>>, key_map |-> <<>>]

\* an insert that leaves the second key out
MapInsert_one_key(m, ino, hash, object) ==
    [value_map |-> (ino :> [hash |-> hash, object |-> object]) @@ m.value_map,
     key_map |-> m.key_map]

\* MultiMap::insert(k1, k2, v)
MapInsert(m, ino, hash, object) ==
    [value_map |-> (ino :> [hash |-> hash, object |-> object]) @@ m.value_map,
     key_map |-> (hash :> ino) @@ m.key_map]

\* ObjectStore::get_by_ino is Some
HasIno(m, ino) == ino \in DOMAIN m.value_map

get_by_ino(m, ino) == m.value_map[ino].object

\* ObjectStore::get_by_hash is Some: MultiMap::get_alt looks the first key up
\* in key_map, then the value in value_map
HasHash(m, hash) == hash \in DOMAIN m.key_map /\ m.key_map[hash] \in DOMAIN m.value_map

get_by_hash(m, hash) == m.value_map[m.key_map[hash]].object

\* the paths WalkDir::new(root) yields: root, and root joined with what is
\* below the directory root leads to (a symlink in or above root is followed,
\* one below it is yielded and not descended into); none when root is not there
WalkEntries(f, root) ==
    UNION {{root \o SubSeq(q, Len(r) + 1, Len(q)) : q \in {x \in DOMAIN f : IsPrefix(r, x)}} :
               r \in {Canonicalize(f, root)} \ {NoPath}}

\* the entries of the walk of root for which path().is_file() holds
FilesUnder(f, root) == {p \in WalkEntries(f, root) : IsFile(f, p)}

RECURSIVE Perms(_)
\* the orders in which a directory walk may yield a set of entries
Perms(S) ==
    IF S = {} THEN {<<>>}
    ELSE UNION {{<<x>> \o t : t \in Perms(S \ {x})} : x \in S}

\* ObjectStore::new is Ok: the root of the walk is there (the walk yields an
\* error for a root it cannot stat) and FileObject::new succeeds on every file
\* of the scan
ObjectStoreNewOk(f) ==
    /\ Exists(f, ObjectsRoot)
    /\ \A p \in FilesUnder(f, ObjectsRoot) : FileObjectNewOk(p)

RECURSIVE ObjectStoreScan(_, _, _)
\* the loop of ObjectStore::new over the walk, inserting each file's object
ObjectStoreScan(f, walk, m) ==
    IF walk = <<>> THEN m
    ELSE LET object == FileObjectNew(Head(walk))
         IN  ObjectStoreScan(f, Tail(walk),
                 MapInsert(m, InoOf(f, Head(walk)), object.hash, object))

\* the results ObjectStore::new may build, one per order of the walk; none
\* when it fails
ObjectStoreNew(f) ==
    IF ~ObjectStoreNewOk(f) THEN {}
    ELSE {ObjectStoreScan(f, walk, EmptyMap) : walk \in Perms(FilesUnder(f, ObjectsRoot))}

\* the Result<FileHash> of put, with the filesystem and index it leaves and the
\* return statement it left by
PutRet(ok, hash, f, m, branch) ==
    [ok |-> ok, hash |-> hash, fs |-> f, objects |-> m, branch |-> branch]

\* put without the lookup by inode
put_no_ino(f, m, path, fault) ==
    IF ~Exists(f, path) THEN PutRet(FALSE, NoHash, f, m, "err")
    ELSE IF ~FileHashOfOk(f, path) THEN PutRet(FALSE, NoHash, f, m, "err")
    ELSE
    LET hash == FileHashOf(f, path)
        dst == ObjectsRoot \o as_path(hash)
        r == link(f, path, dst, fault)
        object == FileObjectNew(dst)
    IN  IF HasHash(m, hash) THEN PutRet(TRUE, hash, f, m, "by_hash")
        ELSE IF ~r.ok THEN PutRet(FALSE, NoHash, r.fs, m, "err")
        ELSE IF ~FileObjectNewOk(dst) THEN PutRet(FALSE, NoHash, r.fs, m, "err")
        ELSE PutRet(TRUE, hash, r.fs,
                    MapInsert(m, InoOf(r.fs, object.path), object.hash, object), "new")

\* put without the lookup by hash
put_no_hash(f, m, path, fault) ==
    IF ~Exists(f, path) THEN PutRet(FALSE, NoHash, f, m, "err")
    ELSE IF IsFile(f, path) /\ HasIno(m, InoOf(f, path))
    THEN PutRet(TRUE, get_by_ino(m, InoOf(f, path)).hash, f, m, "by_ino")
    ELSE IF ~FileHashOfOk(f, path) THEN PutRet(FALSE, NoHash, f, m, "err")
    ELSE
    LET hash == FileHashOf(f, path)
        dst == ObjectsRoot \o as_path(hash)
        r == link(f, path, dst, fault)
        object == FileObjectNew(dst)
    IN  IF ~r.ok THEN PutRet(FALSE, NoHash, r.fs, m, "err")
        ELSE IF ~FileObjectNewOk(dst) THEN PutRet(FALSE, NoHash, r.fs, m, "err")
        ELSE PutRet(TRUE, hash, r.fs,
                    MapInsert(m, InoOf(r.fs, object.path), object.hash, object), "new")

\* ObjectStore::put
put(f, m, path, fault) ==
    IF ~Exists(f, path) THEN PutRet(FALSE, NoHash, f, m, "err")
    ELSE IF IsFile(f, path) /\ HasIno(m, InoOf(f, path))
    THEN PutRet(TRUE, get_by_ino(m, InoOf(f, path)).hash, f, m, "by_ino")
    ELSE IF ~FileHashOfOk(f, path) THEN PutRet(FALSE, NoHash, f, m, "err")
    ELSE
    LET hash == FileHashOf(f, path)
        dst == ObjectsRoot \o as_path(hash)
        r == link(f, path, dst, fault)
        object == FileObjectNew(dst)
    IN  IF HasHash(m, hash) THEN PutRet(TRUE, hash, f, m, "by_hash")
        ELSE IF ~r.ok THEN PutRet(FALSE, NoHash, r.fs, m, "err")
        ELSE IF ~FileObjectNewOk(dst) THEN PutRet(FALSE, NoHash, r.fs, m, "err")
        ELSE PutRet(TRUE, hash, r.fs,
                    MapInsert(m, InoOf(r.fs, object.path), object.hash, object), "new")

----------------------------------------------------------------------------
(* Orderings: Rust's derived Ord on PathBuf, String, Object, ChangeType, Change *)

CompareInt(a, b) == IF a < b THEN -1 ELSE IF a > b THEN 1 ELSE 0

\* the first index at which two sequences differ, 0 when one is a prefix of the other
FirstDiff(a, b) ==
    LET n == IF Len(a) < Len(b) THEN Len(a) ELSE Len(b)
        diffs == {i \in 1 .. n : a[i] # b[i]}
    IN  IF diffs = {} THEN 0 ELSE CHOOSE i \in diffs : \A k \in diffs : i <= k

\* -1, 0, 1: the lexicographic order of two sequences of numbers
CompareSeq(a, b) ==
    LET i == FirstDiff(a, b)
    IN  IF i = 0 THEN CompareInt(Len(a), Len(b)) ELSE CompareInt(a[i], b[i])

\* the order of two paths, component by component
ComparePath(p, q) ==
    LET i == FirstDiff(p, q)
    IN  IF i = 0 THEN CompareInt(Len(p), Len(q)) ELSE CompareSeq(p[i], q[i])

\* the first comparison that is not 0
Then(c, d) == IF c # 0 THEN c ELSE d

----------------------------------------------------------------------------
(* Object and Index (state.rs) *)

Object(path, hash, name, ino) == [path |-> path, hash |-> hash, name |-> name, ino |-> ino]

NoObject == Object(Root, NoHash, <<>>, 0)

\* #[derive(Ord)] on Object: path, hash, name, ino
CompareObject(a, b) ==
    Then(ComparePath(a.path, b.path),
    Then(CompareSeq(a.hash, b.hash),
    Then(CompareSeq(a.name, b.name), CompareInt(a.ino, b.ino))))

\* the string of a canonical path: "/" before every component
RECURSIVE PathStr(_)
PathStr(p) == IF p = <<>> THEN <<>> ELSE <<47>> \o Head(p) \o PathStr(Tail(p))

\* FileHash::from_path: the path's string as a hash, or else the file's content hash
FromPathOk(f, p) == FromStrOk(PathStr(p)) \/ FileHashOfOk(f, p)

FromPath(f, p) == IF FromStrOk(PathStr(p)) THEN PathStr(p) ELSE FileHashOf(f, p)

ByNameRoot == ObjectsRoot \o <<ByNameName>>

\* the entries of the walk of .hoard/objects/by-name that are symlinks
\* (read_link is Ok)
References(f) == {p \in WalkEntries(f, ByNameRoot) : f[Real(f, p)].kind = "symlink"}

\* Index::from is Ok: every reference resolves to a file that can be hashed
IndexFromOk(f) ==
    \A p \in References(f) : Exists(f, p) /\ FromPathOk(f, Canonicalize(f, p))

\* the Object of a reference, with the path of the reference itself
ObjectOf_unresolved(f, p) ==
    LET path == Canonicalize(f, p)
    IN  Object(p, FromPath(f, path), p[Len(p)], InoOf(f, path))

\* the Object Index::from pushes for the reference at p
ObjectOf(f, p) ==
    LET path == Canonicalize(f, p)
    IN  Object(path, FromPath(f, path), p[Len(p)], InoOf(f, path))

\* the Index.objects Index::from may build, one per order of the walk
IndexFrom(f) ==
    {[i \in 1 .. Len(walk) |-> ObjectOf(f, walk[i])] : walk \in Perms(References(f))}

\* the Result<Index> of Index::from: Ok or not, and the three lists of the Index
IndexRet(ok, objs) == [ok |-> ok, created |-> <<>>, deleted |-> <<>>, objects |-> objs]

\* no Index::from has returned yet
NoIndex == IndexRet(FALSE, <<>>)

\* Index::by_ino: a HashMap collected from the objects in order, so that the
\* last object of an inode is the one it holds
by_ino(ix) ==
    [k \in {ix[i].ino : i \in 1 .. Len(ix)} |->
        ix[CHOOSE i \in 1 .. Len(ix) :
                ix[i].ino = k /\ \A j \in (i + 1) .. Len(ix) : ix[j].ino # k]]

\* Index::by_name: the last object of a name is the one it holds
by_name(ix) ==
    [k \in {ix[i].name : i \in 1 .. Len(ix)} |->
        ix[CHOOSE i \in 1 .. Len(ix) :
                ix[i].name = k /\ \A j \in (i + 1) .. Len(ix) : ix[j].name # k]]

----------------------------------------------------------------------------
(* ChangeType and Change *)

Change(path, type, o1, o2) == [path |-> path, type |-> type, o1 |-> o1, o2 |-> o2]

Ignore(path) == Change(path, "Ignore", NoObject, NoObject)
Create(path, o) == Change(path, "Create", o, NoObject)
Delete(path, o) == Change(path, "Delete", o, NoObject)
Modify(path, o1, o2) == Change(path, "Modify", o1, o2)

\* the order of the variants of ChangeType
TypeRank(t) == CASE t = "Ignore" -> 0 [] t = "Create" -> 1 [] t = "Delete" -> 2 [] t = "Modify" -> 3

\* #[derive(Ord)] on Change: _path, then _type (variant, then its fields)
CompareChange(c, d) ==
    Then(ComparePath(c.path, d.path),
    Then(CompareInt(TypeRank(c.type), TypeRank(d.type)),
    Then(CompareObject(c.o1, d.o1), CompareObject(c.o2, d.o2))))

RECURSIVE Ascending(_)
\* BTreeSet<Change>::into_iter: the changes in ascending order
Ascending(S) ==
    IF S = {} THEN <<>>
    ELSE LET least == CHOOSE c \in S : \A d \in S : CompareChange(c, d) <= 0
         IN  <<least>> \o Ascending(S \ {least})

\* Change::execute: Ok or not, and the filesystem it leaves
ExecRet(ok, f) == [ok |-> ok, fs |-> f]

\* execute making a Create through link, as it makes a Modify
execute_linking(c, f, fault) ==
    CASE c.type = "Ignore" -> ExecRet(TRUE, f)
      [] c.type = "Delete" ->
            IF RemoveFileOk(f, c.path) THEN ExecRet(TRUE, RemoveFile(f, c.path))
            ELSE ExecRet(FALSE, f)
      [] c.type = "Create" ->
            LET r == link(f, c.o1.path, c.path, fault)
            IN  ExecRet(r.ok, r.fs)
      [] c.type = "Modify" ->
            LET r == link(f, c.o2.path, c.path, fault)
            IN  ExecRet(r.ok, r.fs)

execute(c, f, fault) ==
    CASE c.type = "Ignore" -> ExecRet(TRUE, f)
      [] c.type = "Delete" ->
            IF RemoveFileOk(f, c.path) THEN ExecRet(TRUE, RemoveFile(f, c.path))
            ELSE ExecRet(FALSE, f)
      [] c.type = "Create" ->
            IF HardLinkOk(f, c.o1.path, c.path, fault)
            THEN ExecRet(TRUE, HardLink(f, c.o1.path, c.path))
            ELSE ExecRet(FALSE, f)
      [] c.type = "Modify" ->
            LET r == link(f, c.o2.path, c.path, fault)
            IN  ExecRet(r.ok, r.fs)

----------------------------------------------------------------------------
(* State *)

State(inner, extra) == [inner |-> inner, extra |-> extra]

EmptyState == State(<<>>, {})

\* the names listing each path of inner more than once: dupes of from_file
Dupes(inner) ==
    LET claimants(path) == {n \in DOMAIN inner : path \in inner[n]}
    IN  {path \in UNION {inner[n] : n \in DOMAIN inner} : Cardinality(claimants(path)) > 1}

\* the entries of the manifest from_file keeps
Retained(m, names) == [n \in DOMAIN m.entries \cap names |-> m.entries[n]]

\* from_file looking for duplicates before it drops the unknown names
FromFileOk_unfiltered(m, names) == m.valid /\ Dupes(m.entries) = {}

\* State::from_file is Ok: the file opens and parses, and no path is listed twice
FromFileOk(m, names) == m.valid /\ Dupes(Retained(m, names)) = {}

FromFile(m, names) == State(Retained(m, names), {})

\* from_path adding every file of the walk to extra
from_path_extra(f, path, ix) ==
    LET files == FilesUnder(f, path)
        known == {p \in files : InoOf(f, p) \in DOMAIN by_ino(ix)}
        nameOf(p) == by_ino(ix)[InoOf(f, p)].name
    IN  State([n \in {nameOf(p) : p \in known} |-> {p \in known : nameOf(p) = n}],
              files)

\* State::from_path: every file of the walk goes to the name of the object that
\* by_ino holds for its inode, or to extra
from_path(f, path, ix) ==
    LET files == FilesUnder(f, path)
        known == {p \in files : InoOf(f, p) \in DOMAIN by_ino(ix)}
        nameOf(p) == by_ino(ix)[InoOf(f, p)].name
    IN  State([n \in {nameOf(p) : p \in known} |-> {p \in known : nameOf(p) = n}],
              files \ known)

\* State::to_changeset, func being Create or Delete
to_changeset(state, objs, func) ==
    UNION {{Change(path, func, objs[n], NoObject) : path \in state.inner[n]} :
               n \in DOMAIN state.inner \cap DOMAIN objs}

----------------------------------------------------------------------------
(* resolve *)

\* the step of the fold without the guard o1 != o2
Merge_unguarded(changes, curr) ==
    IF changes = <<>> THEN <<curr>>
    ELSE
    LET prev == changes[Len(changes)]
        rest == SubSeq(changes, 1, Len(changes) - 1)
    IN  IF prev.path = curr.path
        THEN IF prev.type = "Create" /\ curr.type = "Delete"
             THEN Append(rest, Modify(prev.path, prev.o1, curr.o1))
             ELSE IF prev.type = "Ignore" THEN Append(rest, prev)
             ELSE rest
        ELSE Append(Append(rest, prev), curr)

\* the step of the fold without the arm (Ignore, _)
Merge_no_ignore(changes, curr) ==
    IF changes = <<>> THEN <<curr>>
    ELSE
    LET prev == changes[Len(changes)]
        rest == SubSeq(changes, 1, Len(changes) - 1)
    IN  IF prev.path = curr.path
        THEN IF prev.type = "Create" /\ curr.type = "Delete" /\ prev.o1 # curr.o1
             THEN Append(rest, Modify(prev.path, prev.o1, curr.o1))
             ELSE rest
        ELSE Append(Append(rest, prev), curr)

\* the step of the fold pushing curr before prev
Merge_swapped(changes, curr) ==
    IF changes = <<>> THEN <<curr>>
    ELSE
    LET prev == changes[Len(changes)]
        rest == SubSeq(changes, 1, Len(changes) - 1)
    IN  IF prev.path = curr.path
        THEN IF prev.type = "Create" /\ curr.type = "Delete" /\ prev.o1 # curr.o1
             THEN Append(rest, Modify(prev.path, prev.o1, curr.o1))
             ELSE IF prev.type = "Ignore" THEN Append(rest, prev)
             ELSE rest
        ELSE Append(Append(rest, curr), prev)

\* one step of the fold of resolve: the vector after curr
Merge(changes, curr) ==
    IF changes = <<>> THEN <<curr>>
    ELSE
    LET prev == changes[Len(changes)]
        rest == SubSeq(changes, 1, Len(changes) - 1)
    IN  IF prev.path = curr.path
        THEN IF prev.type = "Create" /\ curr.type = "Delete" /\ prev.o1 # curr.o1
             THEN Append(rest, Modify(prev.path, prev.o1, curr.o1))
             ELSE IF prev.type = "Ignore" THEN Append(rest, prev)
             ELSE rest
        ELSE Append(Append(rest, prev), curr)

RECURSIVE Fold(_, _)
Fold(acc, changes) ==
    IF changes = <<>> THEN acc ELSE Fold(Merge(acc, Head(changes)), Tail(changes))

\* resolve taking the names of either State
resolve_union(d, a, ix) ==
    LET nameset == DOMAIN d.inner \cup DOMAIN a.inner
        objects_by_name == [n \in DOMAIN by_name(ix) \cap nameset |-> by_name(ix)[n]]
        changes == to_changeset(d, objects_by_name, "Create")
                   \cup to_changeset(a, objects_by_name, "Delete")
                   \cup {Ignore(path) : path \in a.extra}
    IN  Fold(<<>>, Ascending(changes))

resolve(d, a, ix) ==
    LET nameset == DOMAIN d.inner \cap DOMAIN a.inner
        objects_by_name == [n \in DOMAIN by_name(ix) \cap nameset |-> by_name(ix)[n]]
        changes == to_changeset(d, objects_by_name, "Create")
                   \cup to_changeset(a, objects_by_name, "Delete")
                   \cup {Ignore(path) : path \in a.extra}
    IN  Fold(<<>>, Ascending(changes))

\* no reconciliation is going on
IdleReconciler ==
    /\ index = <<>>
    /\ built = NoIndex
    /\ manifest = [valid |-> FALSE, entries |-> <<>>]
    /\ desire = EmptyState
    /\ scanned = Root
    /\ actual = EmptyState
    /\ plan = <<>>
    /\ todo = <<>>
    /\ pc = "idle"

----------------------------------------------------------------------------
(* The working tree, and a record of the most recent call *)

\* "a", "b", "c", ...
WorkFile(i) == << <<96 + i>> >>
LinkFiles == {WorkFile(i) : i \in 1 .. NumLinkFiles}

\* "n", a directory that does not exist at the start, and "n/x" in it
NewDir == << <<110>> >>
Nested == << <<110>>, <<120>> >>

\* "s", a symlink of the working tree
Alias == << <<115>> >>

\* Repository::_init
RepositoryInit(f) ==
    CreateDirAll(CreateDirAll(f, ObjectsRoot \o <<ByHashName>>), ObjectsRoot \o <<ByNameName>>)

\* the inodes the working files may have at the start: file i has one of the
\* inodes 1 .. i, so that files may be hardlinks of each other
InodeLayouts(n) == {l \in [1 .. n -> 1 .. n] : \A i \in 1 .. n : l[i] <= i}

\* an initialised repository whose working tree holds the files of layout l
InitFs(l) ==
    LET f0 == [p \in {Root} \cup {WorkFile(i) : i \in DOMAIN l} |->
                  IF p = Root THEN Dir
                  ELSE File(l[CHOOSE i \in DOMAIN l : WorkFile(i) = p])]
    IN  RepositoryInit(f0)

\* what is at path p: "none", "file" or "dir" (through symlinks), and the inode
\* of a file (0 otherwise)
KindAt(f, p) == IF ~Exists(f, p) THEN "none" ELSE f[Canonicalize(f, p)].kind
FileInoAt(f, p) == IF IsFile(f, p) THEN InoOf(f, p) ELSE 0

\* op, src, dst: the call; src_kind, ino, dst_kind, dst_ino: what was at src and
\* dst when it was made; known_ino, known_hash: whether the store then held
\* src's inode and src's content hash; ok, created, hash: the result; branch:
\* the return statement put left by; repeat: the call before was the same call
\* and succeeded; tick: alternates with every call
NoCall ==
    [op |-> "none", src |-> Root, dst |-> Root, src_kind |-> "none", ino |-> 0,
     dst_kind |-> "none", dst_ino |-> 0, known_ino |-> FALSE, known_hash |-> FALSE,
     ok |-> FALSE, created |-> FALSE, hash |-> NoHash, branch |-> "none",
     repeat |-> FALSE, tick |-> 0]

\* this call follows a successful call of the same operation on the same arguments
Repeats(op, src, dst) == last.op = op /\ last.src = src /\ last.dst = dst /\ last.ok

----------------------------------------------------------------------------
(* The store machine: ObjectStore::new on an initialised repository, then   *)
(* any sequence of put calls on paths of the working tree                   *)

\* the sets of inodes a store may hold at the start, each at the path of its
\* content's hash: no two of the same content
StoreLayouts(n) ==
    {pre \in SUBSET (1 .. n) : \A i \in pre, j \in pre : ContentOf(i) = ContentOf(j) => i = j}

RECURSIVE WithStored(_, _)
\* the filesystem f with the inodes of pre stored
WithStored(f, pre) ==
    IF pre = {} THEN f
    ELSE LET i == CHOOSE k \in pre : TRUE
         IN  WithEntry(WithStored(f, pre \ {i}),
                       ObjectsRoot \o as_path(Sha256(ContentOf(i))), File(i))

Init ==
    /\ \E l \in InodeLayouts(NumFiles), pre \in StoreLayouts(NumFiles) :
           fs = WithStored(InitFs(l), pre)
    /\ ObjectStoreNewOk(fs)
    /\ objects \in ObjectStoreNew(fs)
    /\ last = NoCall
    /\ puts = {}
    /\ IdleReconciler

PutCall(path, fault) ==
    LET r == put(fs, objects, path, fault)
        ino == FileInoAt(fs, path)
    IN  /\ fs' = r.fs
        /\ objects' = r.objects
        /\ last' = [op |-> "put", src |-> path, dst |-> Root,
                    src_kind |-> KindAt(fs, path), ino |-> ino,
                    dst_kind |-> "none", dst_ino |-> 0,
                    known_ino |-> ino # 0 /\ HasIno(objects, ino),
                    known_hash |-> ino # 0 /\ HasHash(objects, Sha256(ContentOf(ino))),
                    ok |-> r.ok, created |-> FALSE, hash |-> r.hash, branch |-> r.branch,
                    repeat |-> Repeats("put", path, Root), tick |-> 1 - last.tick]
        /\ puts' = IF r.ok THEN puts \cup {[ino |-> ino, hash |-> r.hash]} ELSE puts
        /\ UNCHANGED svars

PutPaths == {WorkFile(i) : i \in 1 .. NumFiles} \cup {NewDir, Root}

Next == \E path \in PutPaths, fault \in BOOLEAN : PutCall(path, fault)

Spec == Init /\ [][Next]_vars

----------------------------------------------------------------------------
(* The link machine: any sequence of link calls in the working tree *)

\* the working tree holds the files of a layout and the symlink "s", which
\* leads to "z", a path that is never there
InitLink ==
    /\ \E l \in InodeLayouts(NumLinkFiles) :
           fs = InitFs(l) @@ (Alias :> Symlink(<< <<122>> >>))
    /\ objects = EmptyMap
    /\ last = NoCall
    /\ puts = {}
    /\ IdleReconciler

LinkCall(src, dst, fault) ==
    LET r == link(fs, src, dst, fault)
    IN  /\ fs' = r.fs
        /\ last' = [op |-> "link", src |-> src, dst |-> dst,
                    src_kind |-> KindAt(fs, src), ino |-> FileInoAt(fs, src),
                    dst_kind |-> KindAt(fs, dst), dst_ino |-> FileInoAt(fs, dst),
                    known_ino |-> FALSE, known_hash |-> FALSE,
                    ok |-> r.ok, created |-> r.created, hash |-> NoHash, branch |-> "none",
                    repeat |-> Repeats("link", src, dst), tick |-> 1 - last.tick]
        /\ UNCHANGED <<objects, puts, svars>>

LinkSrcs == LinkFiles \cup {NewDir}
LinkDsts == LinkFiles \cup {NewDir, Nested}

NextLink == \E src \in LinkSrcs, dst \in LinkDsts, fault \in BOOLEAN : LinkCall(src, dst, fault)

SpecLink == InitLink /\ [][NextLink]_vars

\* link where src may also be the symlink "s"
NextLinkAlias ==
    \E src \in LinkSrcs \cup {Alias}, dst \in LinkDsts, fault \in BOOLEAN : LinkCall(src, dst, fault)

SpecLinkAlias == InitLink /\ [][NextLinkAlias]_vars

----------------------------------------------------------------------------
(* The reconciler machine: a repository holding two named objects and a      *)
(* working tree; a manifest is loaded, the tree is scanned, the two States   *)
(* are resolved and the Changes are executed one by one, in order            *)

\* "n1", "n2", the names of the Name Index, and "z", a name it does not hold
Name(i) == <<110, 48 + i>>
UnknownName == <<122>>

\* the inode of stored object k; its content is k
ObjectIno(k) == 2 * k

\* "w", the working tree, and "w/a", "w/b", ... in it
WorkDir == << <<119>> >>
WPath(j) == << <<119>>, <<96 + j>> >>
WPaths == {WPath(j) : j \in 1 .. NumPaths}

\* the storage path of object k
ObjectPath(k) == ObjectsRoot \o as_path(Sha256(ContentOf(ObjectIno(k))))

\* an initialised repository with objects 1 and 2 stored, name i a reference
\* to object target[i], and the working files of layout w (0: no file)
RepositoryFs(target, w) ==
    LET f0 == RepositoryInit([p \in {Root} |-> Dir])
        f1 == WithEntry(WithEntry(f0, ObjectPath(1), File(ObjectIno(1))),
                        ObjectPath(2), File(ObjectIno(2)))
        f2 == WithEntry(WithEntry(f1, ByNameRoot \o <<Name(1)>>, Symlink(ObjectPath(target[1]))),
                        ByNameRoot \o <<Name(2)>>, Symlink(ObjectPath(target[2])))
        f3 == CreateDirAll(f2, WorkDir)
    IN  [q \in DOMAIN f3 \cup {WPath(j) : j \in {k \in DOMAIN w : w[k] # 0}} |->
            IF q \in DOMAIN f3 THEN f3[q]
            ELSE File(w[CHOOSE j \in DOMAIN w : WPath(j) = q])]

\* a working file is a hardlink of object 1 (inode 2) or 2 (inode 4), or an
\* untracked copy of object 1's content (inode 3); 0: no file
Layouts == [1 .. NumPaths -> {0, ObjectIno(1), 3, ObjectIno(2)}]

\* the manifests: a file that does not parse, and every mapping of some of the
\* names n1, n2 to paths of the working tree, with or without an entry "z"
\* listing the first path
Manifests ==
    {[valid |-> FALSE, entries |-> <<>>]} \cup
    {[valid |-> TRUE, entries |-> e] :
        e \in UNION {{k @@ u : k \in [D -> SUBSET WPaths]} :
                        D \in SUBSET {Name(1), Name(2)}, u \in {<<>>, UnknownName :> {WPath(1)}}}}

\* name 1 refers to object 1, name 2 to object 1 or 2
InitState ==
    /\ \E t \in {u \in [1 .. 2 -> 1 .. 2] : u[1] = 1}, w \in Layouts : fs = RepositoryFs(t, w)
    /\ objects = EmptyMap
    /\ last = NoCall
    /\ puts = {}
    /\ IndexFromOk(fs)
    /\ index \in IndexFrom(fs)
    /\ built = IndexRet(TRUE, index)
    /\ manifest = [valid |-> FALSE, entries |-> <<>>]
    /\ desire = EmptyState
    /\ scanned = Root
    /\ actual = EmptyState
    /\ plan = <<>>
    /\ todo = <<>>
    /\ pc = "start"

\* the names the manifest is checked against: those of the Name Index
KnownNames == DOMAIN by_name(index)

\* State::from_file
LoadManifest(m) ==
    /\ pc = "start"
    /\ manifest' = m
    /\ IF FromFileOk(m, KnownNames)
       THEN desire' = FromFile(m, KnownNames) /\ pc' = "loaded"
       ELSE desire' = desire /\ pc' = "rejected"
    /\ UNCHANGED <<fs, objects, last, puts, index, built, scanned, actual, plan, todo>>

\* State::from_path
ScanTree(path) ==
    /\ pc = "loaded"
    /\ scanned' = path
    /\ actual' = from_path(fs, path, index)
    /\ pc' = "scanned"
    /\ UNCHANGED <<fs, objects, last, puts, index, built, manifest, desire, plan, todo>>

\* resolve
Resolve ==
    /\ pc = "scanned"
    /\ plan' = resolve(desire, actual, index)
    /\ todo' = plan'
    /\ pc' = "resolved"
    /\ UNCHANGED <<fs, objects, last, puts, index, built, manifest, desire, scanned, actual>>

\* Change::execute on the next Change; a failure ends the run
Execute(fault) ==
    /\ pc = "resolved"
    /\ todo # <<>>
    /\ LET r == execute(Head(todo), fs, fault)
       IN  /\ fs' = r.fs
           /\ IF r.ok THEN todo' = Tail(todo) /\ pc' = pc
              ELSE todo' = todo /\ pc' = "failed"
    /\ UNCHANGED <<objects, last, puts, index, built, manifest, desire, scanned, actual, plan>>

\* every Change has been executed
Finish ==
    /\ pc = "resolved"
    /\ todo = <<>>
    /\ pc' = "done"
    /\ UNCHANGED <<fs, objects, last, puts, index, built, manifest, desire, scanned, actual, plan, todo>>

ScanRoots == {Root, WorkDir}

NextState ==
    \/ \E m \in Manifests : LoadManifest(m)
    \/ \E path \in ScanRoots : ScanTree(path)
    \/ Resolve
    \/ \E fault \in BOOLEAN : Execute(fault)
    \/ Finish

SpecState == InitState /\ [][NextState]_vars

----------------------------------------------------------------------------
(* Repository: init, load, add and apply (hoard.rs)                          *)

\* number of files at the top of the working tree of the repository machine
NumRepoFiles == 2

\* the Result<()> of add and of apply, with the filesystem it leaves
RepoRet(ok, f) == [ok |-> ok, fs |-> f]

\* Repository::_init is Ok: both create_dir_all calls succeed, the second on
\* what the first has left
InitOk(f) ==
    /\ CreateDirAllOk(f, ObjectsRoot \o <<ByHashName>>)
    /\ CreateDirAllOk(CreateDirAll(f, ObjectsRoot \o <<ByHashName>>),
                      ObjectsRoot \o <<ByNameName>>)

\* Repository::load finds the repository at the root: .hoard is a directory
load(f) == IsDir(f, <<HoardName>>)

\* is_index of _expand: the entry's file name is ".hoard"
is_index(name) == name = HoardName

\* Repository::_expand is Ok: the path canonicalizes and lies below the root
ExpandOk(f, path) == Exists(f, path) /\ IsPrefix(Root, Canonicalize(f, path))

\* Repository::_expand: the regular files of the walk of path, the entries
\* named .hoard (the walked path itself included) and all below them left out
_expand(f, path) ==
    LET top == Canonicalize(f, path)
        first == IF Len(top) = 0 THEN 1 ELSE Len(top)
    IN  {p \in FilesUnder(f, top) : \A k \in first .. Len(p) : ~is_index(p[k])}

RECURSIVE ExpandAll(_, _)
\* the loop of add over paths: the results of every _expand
ExpandAll(f, paths) ==
    IF paths = <<>> THEN {} ELSE _expand(f, Head(paths)) \cup ExpandAll(f, Tail(paths))

RECURSIVE ExpandAllOk(_, _)
ExpandAllOk(f, paths) ==
    paths = <<>> \/ (ExpandOk(f, Head(paths)) /\ ExpandAllOk(f, Tail(paths)))

\* Repository::add: expands the paths and builds the Index; the loop over the
\* expanded files has an empty body, so that nothing is ingested or linked
add(f, paths) == RepoRet(ExpandAllOk(f, paths) /\ IndexFromOk(f), f)

\* is_empty_dir: read_dir opens what p resolves to, symlinks followed, and
\* finds nothing in it
is_empty_dir(f, p) ==
    /\ IsDir(f, p)
    /\ ~\E q \in DOMAIN f : Len(q) > 0 /\ Parent(q) = Canonicalize(f, p)

\* fs::remove_dir(p): the entry p names must be a directory, a symlink to one
\* is refused (ENOTDIR), and nothing may be in it
RemoveDirOk(f, p) ==
    /\ Real(f, p) \in DOMAIN f
    /\ f[Real(f, p)].kind = "dir"
    /\ ~\E q \in DOMAIN f : Len(q) > 0 /\ Parent(q) = Real(f, p)

RemoveDir(f, p) == [q \in DOMAIN f \ {Real(f, p)} |-> f[q]]

RECURSIVE WalkDir(_, _, _)
\* the orders in which a walk yields the entries ps, taken in this order, and
\* what is below them: the entries of a directory come in any order (that of
\* read_dir), a symlink is not descended into, and with contents_first what is
\* below a directory comes before the directory, without it after
WalkDir(f, ps, contents_first) ==
    IF ps = <<>> THEN {<<>>}
    ELSE LET p == Head(ps)
             entries == {q \in DOMAIN f : Len(q) = Len(p) + 1 /\ Parent(q) = p}
             below == IF f[p].kind # "dir" THEN {<<>>}
                      ELSE UNION {WalkDir(f, order, contents_first) :
                                      order \in Perms(entries)}
         IN  {(IF contents_first THEN b \o <<p>> ELSE <<p>> \o b) \o rest :
                  b \in below, rest \in WalkDir(f, Tail(ps), contents_first)}

\* the walks without contents_first: a directory before what is below it
ContentsFirst_sorted(f) == WalkDir(f, <<Root>>, FALSE)

\* WalkDir::new(root).contents_first(true): the orders the walk may take
ContentsFirst(f) == WalkDir(f, <<Root>>, TRUE)

RECURSIVE ApplyWalk(_, _, _, _)
\* the loop of apply over the walk; inodes and paths are the two sets apply
\* declares and never inserts into; a call that fails ends the loop and leaves
\* what was done before it
ApplyWalk(f, walk, inodes, paths) ==
    IF walk = <<>> THEN RepoRet(TRUE, f)
    ELSE
    LET p == Head(walk)
    IN  IF IsPrefix(<<HoardName>>, p) THEN ApplyWalk(f, Tail(walk), inodes, paths)
        ELSE IF ~Exists(f, p) THEN RepoRet(FALSE, f)
        ELSE
        LET listed == InoOf(f, p) \in inodes /\ p \notin paths
            f1 == IF listed /\ RemoveFileOk(f, p) THEN RemoveFile(f, p) ELSE f
        IN  IF listed /\ ~RemoveFileOk(f, p) THEN RepoRet(FALSE, f)
            ELSE IF ~is_empty_dir(f1, p) THEN ApplyWalk(f1, Tail(walk), inodes, paths)
            ELSE IF ~RemoveDirOk(f1, p) THEN RepoRet(FALSE, f1)
            ELSE ApplyWalk(RemoveDir(f1, p), Tail(walk), inodes, paths)

\* Repository::apply: the outcomes it may have, one per order of the walk
apply(f) == {ApplyWalk(f, walk, {}, {}) : walk \in ContentsFirst(f)}

\* "n" and "n/x", absent, empty directories, or a directory holding a file;
\* and "s", a symlink to "n", with "n" empty or holding a file, or a symlink
\* to the directory by-hash of the store
Subtrees ==
    {<<>>, NewDir :> Dir, (NewDir :> Dir) @@ (Nested :> Dir)}
        \cup {(NewDir :> Dir) @@ (Nested :> File(i)) : i \in 1 .. NumRepoFiles}
        \cup {(NewDir :> Dir) @@ (Alias :> Symlink(NewDir)),
              (NewDir :> Dir) @@ (Nested :> File(1)) @@ (Alias :> Symlink(NewDir)),
              Alias :> Symlink(ObjectsRoot \o <<ByHashName>>)}

\* the working trees the repository machine starts from: the top files of
\* layout l (0: no file; file i has one of the inodes 1 .. i, so that files may
\* be hardlinks of each other) and a subtree
RepoTree(l, sub) ==
    LET top == {WorkFile(i) : i \in {k \in DOMAIN l : l[k] # 0}}
    IN  [p \in {Root} \cup top \cup DOMAIN sub |->
            IF p = Root THEN Dir
            ELSE IF p \in DOMAIN sub THEN sub[p]
            ELSE File(l[CHOOSE i \in DOMAIN l : WorkFile(i) = p])]

\* a call of the repository machine, as a record of the most recent call
RepoCall(op, path, ok) ==
    [NoCall EXCEPT !.op = op, !.src = path, !.src_kind = KindAt(fs, path),
                   !.ok = ok, !.tick = 1 - last.tick]

(* The repository machine: a directory tree, Repository::init on it, then    *)
(* any sequence of add and apply calls on the repository loaded from it      *)

InitRepo ==
    /\ \E l \in [1 .. NumRepoFiles -> 0 .. NumRepoFiles], sub \in Subtrees :
           /\ \A i \in DOMAIN l : l[i] <= i
           /\ fs = RepoTree(l, sub)
    /\ objects = EmptyMap
    /\ last = NoCall
    /\ puts = {}
    /\ IdleReconciler

\* Repository::init
InitCall ==
    /\ InitOk(fs)
    /\ fs' = RepositoryInit(fs)
    /\ last' = RepoCall("init", Root, TRUE)
    /\ UNCHANGED <<objects, puts, svars>>

\* Repository::load, then add of one path
AddCall(path) ==
    /\ load(fs)
    /\ LET r == add(fs, <<path>>)
       IN  fs' = r.fs /\ last' = RepoCall("add", path, r.ok)
    /\ UNCHANGED <<objects, puts, svars>>

\* Repository::load, then apply; the record keeps what was at n/x before
ApplyCall ==
    /\ load(fs)
    /\ \E r \in apply(fs) :
           /\ fs' = r.fs
           /\ last' = [RepoCall("apply", Root, r.ok) EXCEPT
                           !.dst = Nested, !.dst_kind = KindAt(fs, Nested)]
    /\ UNCHANGED <<objects, puts, svars>>

\* the paths add is given: the root, files and directories of the tree, the
\* store itself
AddPaths == {Root, NewDir, Nested, Alias, <<HoardName>>} \cup {WorkFile(i) : i \in 1 .. NumRepoFiles}

NextRepo ==
    \/ InitCall
    \/ \E path \in AddPaths : AddCall(path)
    \/ ApplyCall

SpecRepo == InitRepo /\ [][NextRepo]_vars

----------------------------------------------------------------------------
(* The index machine: a repository whose name-index directory holds up to    *)
(* three references, and Index::from on it                                   *)

\* number of stored objects a reference may lead to
NumObjects == 2

\* the places of the references: by-name/n1, by-name/n2, and by-name/s/n1 in
\* a subdirectory
RefPath(i) ==
    CASE i = 1 -> ByNameRoot \o <<Name(1)>>
      [] i = 2 -> ByNameRoot \o <<Name(2)>>
      [] i = 3 -> ByNameRoot \o <<<<115>>, Name(1)>>

\* what a place may hold: nothing (0), a symlink to stored object k (k > 0),
\* a symlink to a path that does not exist (-1), a symlink to a directory
\* (-2), a symlink to the reference by-name/n1 (-3)
RefKinds == (-3) .. NumObjects

\* the target of a symlink of kind k
RefTarget(k) ==
    CASE k = -1 -> ObjectsRoot \o <<<<109>>>>
      [] k = -2 -> ObjectsRoot \o <<ByHashName>>
      [] k = -3 -> RefPath(1)
      [] k > 0 -> ObjectPath(k)

RECURSIVE WithObjects(_, _)
\* the filesystem f with the objects 1 .. n stored
WithObjects(f, n) ==
    IF n = 0 THEN f
    ELSE WithEntry(WithObjects(f, n - 1), ObjectPath(n), File(ObjectIno(n)))

RECURSIVE WithRefs(_, _, _)
\* the filesystem f with the references of kinds[1 .. n] at their places
WithRefs(f, kinds, n) ==
    IF n = 0 THEN f
    ELSE IF kinds[n] = 0 THEN WithRefs(f, kinds, n - 1)
    ELSE WithEntry(WithRefs(f, kinds, n - 1), RefPath(n), Symlink(RefTarget(kinds[n])))

InitIndex ==
    /\ \E kinds \in [1 .. 3 -> RefKinds] :
           fs = WithRefs(WithObjects(RepositoryInit([p \in {Root} |-> Dir]), NumObjects), kinds, 3)
    /\ objects = EmptyMap
    /\ last = NoCall
    /\ puts = {}
    /\ index = <<>>
    /\ built = NoIndex
    /\ manifest = [valid |-> FALSE, entries |-> <<>>]
    /\ desire = EmptyState
    /\ scanned = Root
    /\ actual = EmptyState
    /\ plan = <<>>
    /\ todo = <<>>
    /\ pc = "start"

\* Index::from, on the root of the repository
BuildIndex ==
    /\ pc = "start"
    /\ IF IndexFromOk(fs)
       THEN \E objs \in IndexFrom(fs) :
                built' = IndexRet(TRUE, objs) /\ index' = objs /\ pc' = "built"
       ELSE built' = IndexRet(FALSE, <<>>) /\ index' = index /\ pc' = "broken"
    /\ UNCHANGED <<fs, objects, last, puts, manifest, desire, scanned, actual, plan, todo>>

NextIndex == BuildIndex

SpecIndex == InitIndex /\ [][NextIndex]_vars

----------------------------------------------------------------------------
(* The link machine, step by step: a link that replaces dst is two system    *)
(* calls, fs::remove_file and fs::hard_link, and the program may stop        *)
(* between them                                                              *)

\* _link reaches fs::remove_file, and the call succeeds: the parent of dst
\* can be made, dst and src exist with different inodes, dst is no directory
Replaces(f, src, dst) ==
    /\ Len(dst) > 0
    /\ CreateDirAllOk(f, Parent(dst))
    /\ LET f1 == CreateDirAll(f, Parent(dst))
       IN  /\ Exists(f1, dst)
           /\ Exists(f1, src)
           /\ ~SameInode(f1, src, dst)
           /\ RemoveFileOk(f1, dst)

\* the first step without the removal
LinkRemove_kept(f, src, dst) == CreateDirAll(f, Parent(dst))

\* _link up to and including fs::remove_file(dst)
LinkRemove(f, src, dst) == RemoveFile(CreateDirAll(f, Parent(dst)), dst)

\* _link from fs::hard_link(src, dst) after the removal to its return
LinkCreate(f, src, dst, fault) ==
    IF HardLinkOk(f, src, dst, fault)
    THEN LinkRet(TRUE, FALSE, HardLink(f, src, dst))
    ELSE LinkRet(FALSE, FALSE, f)

\* the record of a call of link made now
LinkRecord(src, dst, ok, created, branch) ==
    [op |-> "link", src |-> src, dst |-> dst,
     src_kind |-> KindAt(fs, src), ino |-> FileInoAt(fs, src),
     dst_kind |-> KindAt(fs, dst), dst_ino |-> FileInoAt(fs, dst),
     known_ino |-> FALSE, known_hash |-> FALSE,
     ok |-> ok, created |-> created, hash |-> NoHash, branch |-> branch,
     repeat |-> Repeats("link", src, dst), tick |-> 1 - last.tick]

\* link is called: in the replacement case it runs up to the removal of dst,
\* in every other case to its return
LinkEnter(src, dst, fault) ==
    /\ pc \in {"idle", "stopped"}
    /\ IF Replaces(fs, src, dst)
       THEN /\ fs' = LinkRemove(fs, src, dst)
            /\ last' = LinkRecord(src, dst, FALSE, FALSE, "replace")
            /\ pc' = "removed"
       ELSE LET r == link(fs, src, dst, fault)
            IN  /\ fs' = r.fs
                /\ last' = LinkRecord(src, dst, r.ok, r.created, "none")
                /\ pc' = "idle"
    /\ UNCHANGED <<objects, puts, index, built, manifest, desire, scanned, actual, plan, todo>>

\* the call goes on after the removal: fs::hard_link, and the return
LinkLeave(fault) ==
    /\ pc = "removed"
    /\ LET r == LinkCreate(fs, last.src, last.dst, fault)
       IN  /\ fs' = r.fs
           /\ last' = [last EXCEPT !.ok = r.ok, !.created = r.created]
    /\ pc' = "idle"
    /\ UNCHANGED <<objects, puts, index, built, manifest, desire, scanned, actual, plan, todo>>

\* the program stops after the removal
LinkStop ==
    /\ pc = "removed"
    /\ pc' = "stopped"
    /\ UNCHANGED <<fs, objects, last, puts, index, built, manifest, desire, scanned, actual, plan, todo>>

NextLinkSteps ==
    \/ \E src \in LinkSrcs, dst \in LinkDsts, fault \in BOOLEAN : LinkEnter(src, dst, fault)
    \/ \E fault \in BOOLEAN : LinkLeave(fault)
    \/ LinkStop

SpecLinkSteps == InitLink /\ [][NextLinkSteps]_vars

----------------------------------------------------------------------------
(* The executor machine: a repository holding two named objects and a        *)
(* working tree, and any sequence of Change::execute calls on Changes at     *)
(* paths that exist, that do not, and whose directory does not               *)

\* "w/n/x", a path in a directory that does not exist at the start
DeepPath == WorkDir \o << <<110>>, <<120>> >>

\* the Object of stored object k, named as name k
StoredObject(k) ==
    Object(ObjectPath(k), Sha256(ContentOf(ObjectIno(k))), Name(k), ObjectIno(k))

\* the Changes execute is given
ExecChanges ==
    UNION {{Ignore(p)}
             \cup {Create(p, StoredObject(k)) : k \in 1 .. 2}
             \cup {Delete(p, StoredObject(k)) : k \in 1 .. 2}
             \cup {Modify(p, StoredObject(k), StoredObject(3 - k)) : k \in 1 .. 2} :
           p \in WPaths \cup {DeepPath}}

InitExec ==
    /\ \E w \in Layouts : fs = RepositoryFs([i \in 1 .. 2 |-> i], w)
    /\ objects = EmptyMap
    /\ last = NoCall
    /\ puts = {}
    /\ IdleReconciler

\* the object whose path execute hands to hard_link or link (none: the root)
LinkedPath(c) ==
    CASE c.type = "Create" -> c.o1.path
      [] c.type = "Modify" -> c.o2.path
      [] OTHER -> Root

\* Change::execute
ExecCall(c, fault) ==
    LET r == execute(c, fs, fault)
    IN  /\ fs' = r.fs
        /\ last' = [NoCall EXCEPT !.op = "execute", !.src = LinkedPath(c), !.dst = c.path,
                                  !.dst_kind = KindAt(fs, c.path),
                                  !.dst_ino = FileInoAt(fs, c.path),
                                  !.ok = r.ok, !.branch = c.type, !.tick = 1 - last.tick]
        /\ UNCHANGED <<objects, puts, svars>>

NextExec == \E c \in ExecChanges, fault \in BOOLEAN : ExecCall(c, fault)

SpecExec == InitExec /\ [][NextExec]_vars

----------------------------------------------------------------------------
(* The opening machine: ObjectStore::new on a repository whose objects root  *)
(* holds stored objects and, under by-name, up to three references           *)

\* ObjectStore::new, on the root of the repository
OpenStore ==
    /\ pc = "start"
    /\ IF ObjectStoreNewOk(fs)
       THEN objects' \in ObjectStoreNew(fs) /\ pc' = "opened"
       ELSE objects' = objects /\ pc' = "refused"
    /\ last' = [NoCall EXCEPT !.op = "new", !.src = ObjectsRoot,
                              !.ok = ObjectStoreNewOk(fs), !.tick = 1 - last.tick]
    /\ UNCHANGED <<fs, puts, index, built, manifest, desire, scanned, actual, plan, todo>>

NextOpen == OpenStore

SpecOpen == InitIndex /\ [][NextOpen]_vars

----------------------------------------------------------------------------
(* Claims about link, under SpecLink *)

\* C1: a successful link(src, dst) of an existing file src ends with dst
\* existing and sharing src's inode (src keeps it), and returns true exactly
\* when dst did not exist before the call.
C1_LinkResult ==
    (last.op = "link" /\ last.ok /\ last.src_kind = "file") =>
        /\ IsFile(fs, last.dst) /\ InoOf(fs, last.dst) = last.ino
        /\ IsFile(fs, last.src) /\ InoOf(fs, last.src) = last.ino
        /\ last.created <=> (last.dst_kind = "none")

\* a link that replaced a dst of another inode, and returned false
C1_Witness ==
    /\ last.op = "link" /\ last.ok /\ last.src_kind = "file"
    /\ last.dst_kind = "file" /\ last.dst_ino # last.ino
    /\ ~last.created

\* C2 as stated: a link(src, dst) right after a successful link(src, dst)
\* succeeds, returns false and leaves every path, its inode and every
\* directory as the first call left them.
C2_LinkIdempotent ==
    [][(last'.op = "link" /\ last'.repeat) =>
           (last'.ok /\ ~last'.created /\ fs' = fs)]_vars

----------------------------------------------------------------------------
(* Claims about ObjectStore::put, under Spec *)

\* the hash put returned and the store it left are the same as after the call before
SamePutResult == last'.ok /\ last'.hash = last.hash /\ fs' = fs /\ objects' = objects

\* C3 as stated: a put right after a successful put of the same path returns
\* the same hash, changes neither the store's files nor its index, and returns
\* from the lookup by inode.
C3_SecondPutByIno ==
    [][(last'.op = "put" /\ last'.repeat) =>
           (SamePutResult /\ last'.branch = "by_ino")]_vars

\* C3 as amended: a put right after a successful put of the same path returns
\* the same hash and changes neither the filesystem nor the index; it returns
\* from the lookup by inode when the first call stored the object or returned
\* from that lookup itself, and it hashes the file again and returns from the
\* lookup by hash when the first call did.
C3_PutIdempotent ==
    [][(last'.op = "put" /\ last'.repeat) =>
           /\ SamePutResult
           /\ last.branch \in {"new", "by_ino"} => last'.branch = "by_ino"
           /\ last.branch = "by_hash" => last'.branch = "by_hash"]_vars

\* a second put in a row of a file whose content is stored under another inode
C3_Witness ==
    /\ last.op = "put" /\ last.repeat /\ last.ok
    /\ last.branch = "by_hash" /\ ~last.known_ino

\* the files of the store that hold content c
StoredFiles(c) == {p \in FilesUnder(fs, ObjectsRoot) : ContentOf(InoOf(fs, p)) = c}

\* the inodes the index holds under hash h
IndexedInodes(h) == {i \in DOMAIN objects.value_map : objects.value_map[i].hash = h}

\* C4: puts of sources with identical content (of distinct inodes or not)
\* return the same hash; the store holds exactly one file and one index entry
\* for each content ingested; a put that finds the content stored under
\* another inode changes neither the filesystem (no file created, the source
\* not relinked) nor the index.
C4_DedupByContent ==
    [][/\ \A x \in puts', y \in puts' :
              ContentOf(x.ino) = ContentOf(y.ino) => x.hash = y.hash
       /\ \A x \in puts' :
              /\ Cardinality(StoredFiles(ContentOf(x.ino)))' = 1
              /\ Cardinality(IndexedInodes(x.hash))' = 1
       /\ (last'.op = "put" /\ last'.ok /\ ~last'.known_ino /\ last'.known_hash) =>
              /\ fs' = fs /\ objects' = objects
              /\ InoOf(fs', last'.src) = last'.ino
              /\ ~HasIno(objects', last'.ino)]_vars

\* two sources of distinct inodes and identical content have been put, the
\* second one just now
C4_Witness ==
    /\ last.op = "put" /\ last.ok /\ ~last.known_ino /\ last.known_hash
    /\ \E x \in puts, y \in puts :
           x.ino # y.ino /\ ContentOf(x.ino) = ContentOf(y.ino) /\ y.ino = last.ino

\* the path <objects root>/<h[0..2]>/<h[2..]>
StoragePath(h) == ObjectsRoot \o <<SubSeq(h, 1, 2), SubSeq(h, 3, Len(h))>>

\* C5: a successful put of a source whose inode and content hash h the index
\* did not hold leaves a file at <objects root>/<h[0..2]>/<h[2..]> sharing the
\* source's inode, the object is found by that inode and by h, and the last
\* two segments of its path, concatenated, are h.
C5_PutNewObject ==
    (last.op = "put" /\ last.ok /\ ~last.known_ino /\ ~last.known_hash) =>
        LET h == Sha256(ContentOf(last.ino))
            p == StoragePath(h)
        IN  /\ last.hash = h
            /\ IsFile(fs, p) /\ InoOf(fs, p) = last.ino
            /\ IsFile(fs, last.src) /\ InoOf(fs, last.src) = last.ino
            /\ HasIno(objects, last.ino) /\ HasHash(objects, h)
            /\ get_by_ino(objects, last.ino) = get_by_hash(objects, h)
            /\ get_by_ino(objects, last.ino).path = p
            /\ get_by_ino(objects, last.ino).hash = h
            /\ p[Len(p) - 1] \o p[Len(p)] = h

\* a put has stored a second object, in the directory of the first
C5_Witness ==
    /\ last.op = "put" /\ last.ok /\ ~last.known_ino /\ ~last.known_hash
    /\ Cardinality(DOMAIN objects.value_map) = 2

----------------------------------------------------------------------------
(* Claims about the reconciler, under SpecState *)

\* the objects of the names that take part in the diff
Participating ==
    [n \in DOMAIN desire.inner \cap DOMAIN actual.inner \cap DOMAIN by_name(index) |->
        by_name(index)[n]]

\* the Changes of a list at path p, in order
ChangesAt(list, p) == SelectSeq(list, LAMBDA c : c.path = p)

\* C6 as stated: once every Change that resolve returned has been executed, in
\* order, each path desired for a name of both States (and not in actual.extra)
\* is a hardlink of that name's object, and no other path that held that name's
\* object still holds it.
C6_Convergence ==
    pc = "done" =>
        \A n \in DOMAIN Participating :
            /\ \A p \in desire.inner[n] \ actual.extra :
                   IsFile(fs, p) /\ InoOf(fs, p) = Participating[n].ino
            /\ \A p \in actual.inner[n] \ desire.inner[n] :
                   FileInoAt(fs, p) # Participating[n].ino

\* C7 as stated: at a path that desired gives to a name of object N and actual
\* to a name of object O, N # O, resolve returns exactly one Change, and it is
\* Modify with O first and N second (the one Change::execute links the path to).
C7_ModifyOldNew ==
    pc = "resolved" =>
        \A n \in DOMAIN Participating, m \in DOMAIN Participating :
            \A p \in desire.inner[n] \cap actual.inner[m] :
                Participating[n] # Participating[m] =>
                    ChangesAt(plan, p) = <<Modify(p, Participating[m], Participating[n])>>

\* State s without path p under name n
Without(s, n, p) ==
    State([k \in DOMAIN s.inner |-> IF k = n THEN s.inner[k] \ {p} ELSE s.inner[k]], s.extra)

\* C8: at a path that desired and actual give to the same object, resolve
\* returns no Change at all, and the Changes it returns are those it returns
\* for the two States without that path.
C8_DiffCancellation ==
    pc = "resolved" =>
        \A n \in DOMAIN Participating :
            \A p \in desire.inner[n] \cap actual.inner[n] :
                /\ ChangesAt(plan, p) = <<>>
                /\ plan = resolve(Without(desire, n, p), Without(actual, n, p), index)

\* a path cancels while another path keeps its Change
C8_Witness ==
    /\ pc = "resolved"
    /\ \E n \in DOMAIN Participating : desire.inner[n] \cap actual.inner[n] # {}
    /\ plan # <<>>

\* the entries of the manifest whose name is known
KeptNames == DOMAIN manifest.entries \cap KnownNames

\* some path is listed under two known names
Ambiguous ==
    \E n \in KeptNames, m \in KeptNames : n # m /\ manifest.entries[n] \cap manifest.entries[m] # {}

\* C9: from_file of a manifest (a file that opens and parses) fails exactly
\* when, among the entries whose name is known, some path is listed under two
\* names; otherwise the State maps each known name of the manifest to exactly
\* its listed paths.
C9_ManifestAmbiguity ==
    (pc # "start" /\ manifest.valid) =>
        /\ (pc = "rejected") <=> Ambiguous
        /\ pc # "rejected" =>
               /\ DOMAIN desire.inner = KeptNames
               /\ \A n \in KeptNames : desire.inner[n] = manifest.entries[n]
               /\ desire.extra = {}

\* a manifest was accepted in which an unknown name lists a path that a known
\* name lists too
C9_Witness ==
    /\ pc = "loaded"
    /\ UnknownName \in DOMAIN manifest.entries
    /\ \E n \in KeptNames : manifest.entries[n] \cap manifest.entries[UnknownName] # {}

\* the regular files under the scanned path
Walked == {p \in DOMAIN fs : IsPrefix(scanned, p) /\ IsFile(fs, p)}

\* the name of the object that by_ino holds for inode i: the last one of the index
IndexedName(i, n) ==
    \E k \in 1 .. Len(index) :
        /\ index[k].ino = i /\ index[k].name = n
        /\ \A j \in (k + 1) .. Len(index) : index[j].ino # i

\* C10: from_path records every regular file it finds exactly once: under the
\* name of the object that by_ino holds for its inode, or in extra when the
\* index holds no such inode; it records nothing else.
C10_FromPathPartition ==
    pc = "scanned" =>
        /\ \A p \in Walked :
               Cardinality({n \in DOMAIN actual.inner : p \in actual.inner[n]})
                   + (IF p \in actual.extra THEN 1 ELSE 0) = 1
        /\ \A n \in DOMAIN actual.inner : \A p \in actual.inner[n] :
               p \in Walked /\ IndexedName(InoOf(fs, p), n)
        /\ \A p \in actual.extra :
               p \in Walked /\ \A k \in 1 .. Len(index) : index[k].ino # InoOf(fs, p)

\* a scan found tracked and untracked files, under an index of two names of one inode
C10_Witness ==
    /\ pc = "scanned"
    /\ actual.extra # {}
    /\ DOMAIN actual.inner # {}
    /\ Len(index) = 2 /\ index[1].ino = index[2].ino

\* the paths a State records, under a name or in extra
Recorded(s) == s.extra \cup UNION {s.inner[n] : n \in DOMAIN s.inner}

\* C11 as stated: the State from_path builds for the repository root records
\* no path under .hoard (no stored object, no reference of the Name Index),
\* neither under a name nor in extra.
C11_NoReservedPaths ==
    (pc = "scanned" /\ scanned = Root) =>
        \A p \in Recorded(actual) : ~IsPrefix(<<HoardName>>, p)

----------------------------------------------------------------------------
(* Claims about Repository, under SpecRepo *)

\* the regular files of the working tree, outside .hoard
TreeFiles(f) == {p \in DOMAIN f : IsFile(f, p) /\ ~IsPrefix(<<HoardName>>, p)}

\* the files of the working tree that share the inode of p
Links(f, p) == {q \in TreeFiles(f) : InoOf(f, q) = InoOf(f, p)}

\* C12 as stated: when two paths of the working tree share an inode, apply
\* removes one of them (the one that is not the expected reference) and keeps
\* the other; a file that alone has its inode is kept.
C12_ApplyRemovesDuplicate ==
    [][(last'.op = "apply" /\ last'.ok) =>
           \A p \in TreeFiles(fs) :
               /\ Cardinality(Links(fs, p)) = 1 => p \in TreeFiles(fs')
               /\ Cardinality(Links(fs, p)) = 2 =>
                      Cardinality(Links(fs, p) \cap TreeFiles(fs')) = 1]_vars

\* C13 as stated: after init and a successful add, every file add was given
\* (by itself or in a directory) has its content in exactly one stored object,
\* at <root>/.hoard/objects/<h[0..2]>/<h[2..]>, and shares that object's inode.
C13_AddStoresObjects ==
    (last.op = "add" /\ last.ok) =>
        \A p \in _expand(fs, last.src) :
            LET h == FileHashOf(fs, p)
            IN  /\ IsFile(fs, StoragePath(h))
                /\ InoOf(fs, StoragePath(h)) = InoOf(fs, p)
                /\ Cardinality(StoredFiles(ContentOf(InoOf(fs, p)))) = 1

----------------------------------------------------------------------------
(* Claims about Index::from, under SpecIndex *)

\* the target of every reference exists
AllResolve == \A p \in References(fs) : Exists(fs, p)

\* the target of every reference exists and is a regular file
AllResolveToFiles == \A p \in References(fs) : IsFile(fs, p)

\* the Object the claim describes for the reference at p: the reference's
\* file name, the path it resolves to, and that file's content hash and inode
NamedObject(p) ==
    LET target == Canonicalize(fs, p)
    IN  [path |-> target, hash |-> Sha256(ContentOf(fs[target].ino)),
         name |-> p[Len(p)], ino |-> fs[target].ino]

\* the Index returned holds one Object per reference, as described, and its
\* created and deleted lists are empty
OnePerReference ==
    /\ built.ok /\ built.created = <<>> /\ built.deleted = <<>>
    /\ Len(built.objects) = Cardinality(References(fs))
    /\ \E walk \in Perms(References(fs)) :
           \A i \in 1 .. Len(walk) : built.objects[i] = NamedObject(walk[i])

\* C14 as stated: Index::from fails when the target of some reference does not
\* exist, and when the target of every reference exists it returns one Object
\* per reference (name, resolved path, hash, inode) and empty created/deleted.
C14_IndexFromResolves ==
    pc \in {"built", "broken"} =>
        /\ ~AllResolve => (pc = "broken" /\ ~built.ok)
        /\ AllResolve => (pc = "built" /\ OnePerReference)

\* C14 as amended: Index::from fails when some reference does not resolve to
\* a regular file (no target, or a directory, whose content cannot be hashed);
\* when every reference resolves to a regular file it returns one Object per
\* reference (name, resolved path, hash, inode) and empty created/deleted.
C14_IndexFromFiles ==
    pc \in {"built", "broken"} =>
        /\ ~AllResolveToFiles => (pc = "broken" /\ ~built.ok)
        /\ AllResolveToFiles => (pc = "built" /\ OnePerReference)

\* an Index of two Objects was built, one of them through a chain of references
C14_Witness ==
    /\ pc = "built" /\ Len(built.objects) = 2
    /\ \E p \in References(fs) : fs[p].target = RefPath(1)

\* C15 as stated: no two Objects of an Index that Index::from built share a
\* name, so that by_name has one entry per Object.
C15_NamesUnique ==
    pc = "built" =>
        /\ \A i \in 1 .. Len(index), j \in 1 .. Len(index) :
               i # j => index[i].name # index[j].name
        /\ Cardinality(DOMAIN by_name(index)) = Len(index)

----------------------------------------------------------------------------
(* More claims about resolve, under SpecState *)

\* the paths State s holds for name n, none when it does not hold the name
PathsOf(s, n) == IF n \in DOMAIN s.inner THEN s.inner[n] ELSE {}

\* C16 as stated: for a name of the Name Index that desired holds and for
\* which actual has no path, resolve returns Create(object) at each of its
\* desired paths (where actual records nothing); for a name that actual holds
\* and desired does not, it returns Delete(object) at each of its actual paths.
C16_OneSidedNames ==
    pc = "resolved" =>
        \A n \in DOMAIN by_name(index) :
            /\ (n \in DOMAIN desire.inner /\ PathsOf(actual, n) = {}) =>
                   \A p \in desire.inner[n] \ Recorded(actual) :
                       ChangesAt(plan, p) = <<Create(p, by_name(index)[n])>>
            /\ (n \in DOMAIN actual.inner /\ n \notin DOMAIN desire.inner) =>
                   \A p \in actual.inner[n] \ Recorded(desire) :
                       ChangesAt(plan, p) = <<Delete(p, by_name(index)[n])>>

\* the names of the objects Change c refers to
NamesIn(c) ==
    CASE c.type = "Ignore" -> {}
      [] c.type \in {"Create", "Delete"} -> {c.o1.name}
      [] c.type = "Modify" -> {c.o1.name, c.o2.name}

\* the names that only one of the two States holds
OneSided ==
    (DOMAIN desire.inner \cup DOMAIN actual.inner)
        \ (DOMAIN desire.inner \cap DOMAIN actual.inner)

\* C17: every Create, Delete and Modify that resolve returns refers to objects
\* whose names both desired.inner and actual.inner (and the Name Index) hold;
\* a name that only one State holds occurs in no Change, and a path that only
\* such names hold has no Change.
C17_OnlySharedNames ==
    pc = "resolved" =>
        /\ \A i \in 1 .. Len(plan) :
               NamesIn(plan[i]) \subseteq
                   DOMAIN desire.inner \cap DOMAIN actual.inner \cap DOMAIN by_name(index)
        /\ \A n \in OneSided :
               \A p \in PathsOf(desire, n) \cup PathsOf(actual, n) :
                   (\A m \in DOMAIN Participating :
                        p \notin desire.inner[m] \cup actual.inner[m])
                       /\ p \notin actual.extra
                   => ChangesAt(plan, p) = <<>>

\* resolve returned a Change while a name that only desired holds lists a path
C17_Witness ==
    /\ pc = "resolved"
    /\ plan # <<>>
    /\ \E n \in DOMAIN desire.inner \ DOMAIN actual.inner : desire.inner[n] # {}

\* C18: at every path of actual.extra resolve returns exactly one Change, and
\* it is Ignore, also when desired lists that path for a name that takes part
\* (no Create is returned there); executing the Changes leaves the file there
\* as it is.
C18_IgnorePrecedence ==
    [][/\ pc' = "resolved" =>
              \A p \in actual'.extra : ChangesAt(plan', p) = <<Ignore(p)>>
       /\ pc = "resolved" =>
              \A p \in actual.extra : p \in DOMAIN fs' /\ fs'[p] = fs[p]]_vars

\* every Change was executed while desired listed an untracked file's path
\* for a name that takes part
C18_Witness ==
    /\ pc = "done"
    /\ \E n \in DOMAIN Participating : desire.inner[n] \cap actual.extra # {}

\* the builder invariants of the two States: no path under two names in
\* desired, and the path sets of actual's names and extra pairwise disjoint
BuilderInvariants ==
    /\ Dupes(desire.inner) = {}
    /\ Dupes(actual.inner) = {}
    /\ \A n \in DOMAIN actual.inner : actual.inner[n] \cap actual.extra = {}

\* the paths at which resolve has a Create to merge, and a Delete to merge
CreatedPaths == UNION {desire.inner[n] : n \in DOMAIN Participating}
DeletedPaths == UNION {actual.inner[n] : n \in DOMAIN Participating}

\* C19: for States with the builder invariants, the list resolve returns is
\* strictly ascending by path, hence has at most one Change per path, and a
\* path with only a Create, or only a Delete, has exactly that Change.
C19_AscendingPaths ==
    (pc = "resolved" /\ BuilderInvariants) =>
        /\ \A i \in 1 .. Len(plan), j \in 1 .. Len(plan) :
               i < j => ComparePath(plan[i].path, plan[j].path) < 0
        /\ \A p \in CreatedPaths \cup DeletedPaths \cup actual.extra :
               Len(ChangesAt(plan, p)) <= 1
        /\ \A n \in DOMAIN Participating :
               /\ \A p \in desire.inner[n] \ (DeletedPaths \cup actual.extra) :
                      ChangesAt(plan, p) = <<Create(p, Participating[n])>>
               /\ \A p \in actual.inner[n] \ CreatedPaths :
                      ChangesAt(plan, p) = <<Delete(p, Participating[n])>>

\* resolve returned a Create at one path and a Delete at another
C19_Witness ==
    /\ pc = "resolved" /\ BuilderInvariants
    /\ Len(plan) = 2
    /\ {plan[1].type, plan[2].type} = {"Create", "Delete"}

----------------------------------------------------------------------------
(* Claims about the steps of link, under SpecLinkSteps *)

\* the filesystem f with the file dst of inode i back in place
Restored(f, dst, i) == [q \in DOMAIN f \cup {dst} |-> IF q = dst THEN File(i) ELSE f[q]]

\* C20: in the replacement case of link (dst exists, with an inode other than
\* src's) dst is removed first and the hardlink made second; no step removes
\* or changes src; dst is missing exactly from the removal to the success of
\* the hardlink, and when the program stops there or the hardlink fails, dst
\* stays missing, the old dst not being put back.  The two steps together are
\* the call of link.
C20_ReplaceWindow ==
    [][/\ (pc # "removed" /\ pc' = "removed") =>
              /\ last'.dst_kind = "file" /\ last'.dst_ino # last'.ino
              /\ last'.dst \in DOMAIN fs /\ last'.dst \notin DOMAIN fs'
              /\ last'.src \in DOMAIN fs' /\ fs'[last'.src] = fs[last'.src]
       /\ (pc = "removed" /\ pc' = "idle") =>
              /\ last.dst \notin DOMAIN fs
              /\ last.src \in DOMAIN fs' /\ fs'[last.src] = fs[last.src]
              /\ last'.ok => (IsFile(fs', last.dst) /\ InoOf(fs', last.dst) = last.ino)
              /\ ~last'.ok => fs' = fs
              /\ \E fault \in BOOLEAN :
                     link(Restored(fs, last.dst, last.dst_ino), last.src, last.dst, fault)
                         = LinkRet(last'.ok, last'.created, fs')
       /\ (pc = "removed" /\ pc' = "stopped") => fs' = fs
       /\ last'.branch = "replace" =>
              (last'.dst \notin DOMAIN fs'
                   <=> (pc' \in {"removed", "stopped"} \/ (pc' = "idle" /\ ~last'.ok)))]_vars

\* the hardlink failed after the removal: dst is missing, src is in place
C20_Witness ==
    /\ pc = "idle" /\ last.branch = "replace" /\ ~last.ok
    /\ last.dst \notin DOMAIN fs
    /\ last.src \in DOMAIN fs

----------------------------------------------------------------------------
(* Claims about Change::execute, under SpecExec *)

\* every entry there before the call, except the one at path p, is there
\* after it, as it was
OthersKept(p) == \A q \in DOMAIN fs \ {p} : q \in DOMAIN fs' /\ fs'[q] = fs[q]

\* what execute does at the path of an Ignore, a Delete and a Create
OwnEntry ==
    LET p == last'.dst
    IN  /\ last'.branch = "Ignore" => (last'.ok /\ fs' = fs)
        /\ last'.branch = "Delete" =>
               IF p \in DOMAIN fs
               THEN last'.ok /\ fs' = [q \in DOMAIN fs \ {p} |-> fs[q]]
               ELSE ~last'.ok /\ fs' = fs
        /\ last'.branch = "Create" =>
               IF last'.ok
               THEN /\ p \notin DOMAIN fs
                    /\ fs' = [q \in DOMAIN fs \cup {p} |-> IF q = p THEN fs[last'.src] ELSE fs[q]]
               ELSE fs' = fs

\* C21 as stated: execute touches nothing but the entry at the Change's path:
\* Ignore succeeds and changes nothing; Delete removes that entry, and fails,
\* changing nothing, when the path is absent; Create adds a hardlink of the
\* object's storage file at that path; every other path, the storage files
\* among them, is as it was, and no other path comes to exist.
C21_OwnPathOnly ==
    [][last'.op = "execute" =>
           /\ OthersKept(last'.dst)
           /\ DOMAIN fs' \ DOMAIN fs \subseteq {last'.dst}
           /\ OwnEntry]_vars

\* C21 as amended: as stated, except that a Modify, which goes through link,
\* also makes the directories above its path that are missing, whether the
\* hardlink then succeeds or not.
C21_OwnPathAndParents ==
    [][last'.op = "execute" =>
           /\ OthersKept(last'.dst)
           /\ \A q \in DOMAIN fs' \ DOMAIN fs :
                  \/ q = last'.dst
                  \/ /\ last'.branch = "Modify"
                     /\ IsPrefix(q, last'.dst) /\ fs'[q] = Dir
           /\ OwnEntry]_vars

\* a Modify at a path whose directory was missing has made the directory
C21_Witness ==
    /\ last.op = "execute" /\ last.branch = "Modify" /\ last.ok
    /\ last.dst = DeepPath /\ last.dst_kind = "none"
    /\ IsFile(fs, DeepPath)

\* the directories of f outside .hoard that hold nothing
EmptyDirs(f) == {p \in DOMAIN f : ~IsPrefix(<<HoardName>>, p) /\ is_empty_dir(f, p)}

\* .hoard and everything under it
Reserved(f) == {p \in DOMAIN f : IsPrefix(<<HoardName>>, p)}

\* C22: after a successful apply no empty directory is left under the root
\* outside .hoard, those that were emptied by the removal of their empty
\* subdirectories included, while .hoard and all under it, its empty
\* directories too, is there as before; only empty directories are removed.
C22_ApplyEmptyDirs ==
    [][(last'.op = "apply" /\ last'.ok) =>
           /\ EmptyDirs(fs') = {}
           /\ Reserved(fs') = Reserved(fs)
           /\ \A p \in Reserved(fs) : fs'[p] = fs[p]
           /\ \E p \in Reserved(fs') : is_empty_dir(fs', p)
           /\ DOMAIN fs' \subseteq DOMAIN fs
           /\ \A p \in DOMAIN fs \ DOMAIN fs' :
                  fs[p] = Dir /\ \A q \in DOMAIN fs : IsPrefix(p, q) => fs[q] = Dir]_vars

\* apply has removed n after n/x, the empty directory that was all it held
C22_Witness ==
    /\ last.op = "apply" /\ last.ok
    /\ last.dst_kind = "dir"
    /\ NewDir \notin DOMAIN fs
    /\ is_empty_dir(fs, ObjectsRoot \o <<ByHashName>>)

----------------------------------------------------------------------------
(* More claims about ObjectStore, under Spec *)

\* the two indices of m describe the same objects: every object is found by
\* its inode and by its hash, sits at <objects root>/<hash[0..2]>/<hash[2..]>
\* with the inode it is registered under, and no two objects share a hash
Consistent(f, m) ==
    /\ \A i \in DOMAIN m.value_map :
           LET o == m.value_map[i].object
           IN  /\ get_by_ino(m, i) = o
               /\ m.value_map[i].hash = o.hash
               /\ HasHash(m, o.hash) /\ get_by_hash(m, o.hash) = o
               /\ o.path = StoragePath(o.hash)
               /\ IsFile(f, o.path) /\ InoOf(f, o.path) = i
    /\ \A h \in DOMAIN m.key_map :
           HasHash(m, h) /\ get_by_hash(m, h).hash = h
    /\ \A i \in DOMAIN m.value_map, j \in DOMAIN m.value_map :
           m.value_map[i].hash = m.value_map[j].hash => i = j

\* C23: from an Object Store built over a store of canonically placed files,
\* after every put, successful or not, the two indices describe the same set
\* of objects, each at its canonical path, no two of one hash or one inode;
\* no put removes or overwrites an entry, and a put that fails leaves both
\* indices as they were.
C23_IndexConsistency ==
    [][/\ Consistent(fs, objects) /\ Consistent(fs', objects')
       /\ \A i \in DOMAIN objects.value_map :
              i \in DOMAIN objects'.value_map /\ objects'.value_map[i] = objects.value_map[i]
       /\ \A h \in DOMAIN objects.key_map :
              h \in DOMAIN objects'.key_map /\ objects'.key_map[h] = objects.key_map[h]
       /\ (last'.op = "put" /\ ~last'.ok) => objects' = objects]_vars

\* a put of new content has failed at its hardlink, on a store that holds an
\* object from the start
C23_Witness ==
    /\ last.op = "put" /\ ~last.ok /\ last.src_kind = "file"
    /\ ~last.known_ino /\ ~last.known_hash
    /\ Cardinality(DOMAIN objects.value_map) = 1
    /\ puts = {}

----------------------------------------------------------------------------
(* Claims about ObjectStore::new, under SpecOpen *)

\* C24 as stated: ObjectStore::new succeeds on every repository and registers
\* each regular file that the scan of the objects root finds, under its inode
\* and its hash, the files outside the two-level hash layout (references
\* under .hoard/objects/by-name) included, their hash being that of their
\* content.
C24_NewRegistersAll ==
    pc \in {"opened", "refused"} =>
        /\ pc = "opened" /\ last.ok
        /\ \A p \in FilesUnder(fs, ObjectsRoot) :
               /\ HasIno(objects, InoOf(fs, p))
               /\ HasHash(objects, Sha256(ContentOf(InoOf(fs, p))))

====
